---- MODULE Spec2Model ----
(***************************************************************************)
(* Model of he_scheduling/services/single_resource_scheduler.pyx:          *)
(* the intrusive doubly-linked task list (Task, Resource), the lazily      *)
(* cached timing state (SchedulingTask), the two sweeps (schedule_forward, *)
(* schedule_backward) and the adjacent-exchange local search               *)
(* (improvement_move_in, SchedulingResource.improve).                      *)
(*                                                                         *)
(* Tasks are 1..NTasks, resources 1..NResources, Python's None is 0.       *)
(* The object graph is the record Heap; every method is an operator from   *)
(* a heap to a heap that executes the method's statements in order, each   *)
(* statement reading the heap the previous one left.  A method that would  *)
(* not return (a walk or a recursion round a cycle of links) or that ends  *)
(* in an AttributeError clears the field ok of the heap.                   *)
(***************************************************************************)
EXTENDS Integers, Sequences, FiniteSets, TLC

\* ---- bounds of the model ----
NTasks == 3
NResources == 2
MaxDuration == 2
MaxTarget == 1
MaxEarlyTarget == 1
MaxMargin == 1
MaxOps == 4
MaxInvalid == 1

None == 0

Tasks == 1..NTasks
Resources == 1..NResources
TaskOrNone == Tasks \cup {None}
ResourceOrNone == Resources \cup {None}
Durations == 0..MaxDuration
Targets == 0..MaxTarget
EarlyTargets == (0 - MaxEarlyTarget)..0
Margins == 0..MaxMargin
InvalidArgs == (0 - MaxInvalid)..(0 - 1)

Max(a, b) == IF a >= b THEN a ELSE b
Min(a, b) == IF a <= b THEN a ELSE b

VARIABLES
    next,               \* Task.next
    previous,           \* Task.previous
    resource,           \* Task.resource
    head,               \* Resource.head
    tail,               \* Resource.tail
    duration,           \* SchedulingTask._duration
    target,             \* SchedulingTask._target
    min_margin_before,  \* SchedulingTask._min_margin_before
    dirty,              \* SchedulingTask._dirty
    earliest_start,     \* SchedulingTask._earliest_start
    start,              \* SchedulingTask._start
    pc,                 \* "idle", "improve" (inside improve's loop), "crashed"
    cursor,             \* local t of SchedulingResource.improve
    improvement,        \* local improvement of SchedulingResource.improve
    self_res,           \* the resource improve() is running on
    score,              \* value returned by schedule(), kept while the
                        \* improve() called right after it runs and returns
    improved,           \* value returned by improve(), until the next call
    last,               \* the last completed call: "init" (none), "call"
                        \* (a list or task method), "schedule",
                        \* "improve_call" (improve() entered), "improve",
                        \* "backward", "forward" (a sweep called alone)
    ops,                \* number of client calls made so far
    hist                \* observations kept for the properties

heapvars == <<next, previous, resource, head, tail, dirty, earliest_start, start>>
taskvars == <<duration, target, min_margin_before>>
vars == <<next, previous, resource, head, tail, duration, target,
          min_margin_before, dirty, earliest_start, start, pc, cursor,
          improvement, self_res, score, improved, last, ops, hist>>

\* The object graph as one value.
Heap ==
    [next |-> next, previous |-> previous, resource |-> resource,
     head |-> head, tail |-> tail, dirty |-> dirty,
     earliest_start |-> earliest_start, start |-> start, ok |-> TRUE]

Fail(h) == [h EXCEPT !.ok = FALSE]

\* ---------------------------------------------------------------------
\* Task: the link primitives
\* ---------------------------------------------------------------------

TaskMoveOut(h, self) ==
    IF h.next[self] = None THEN h
    ELSE
      LET nxt == h.next[self]
          \* left side
          h1 == [h EXCEPT !.previous[nxt] = h.previous[self]]
          h2 == IF h1.previous[self] # None
                  THEN [h1 EXCEPT !.next[h1.previous[self]] = nxt]
                ELSE IF h1.resource[self] # None
                  THEN [h1 EXCEPT !.head[h1.resource[self]] = nxt]
                ELSE h1
          h3 == [h2 EXCEPT !.previous[self] = nxt]
          \* right side
          h4 == [h3 EXCEPT !.next[self] = h3.next[nxt]]
          h5 == IF h4.next[nxt] # None
                  THEN [h4 EXCEPT !.previous[h4.next[nxt]] = self]
                ELSE IF h4.resource[self] # None
                  THEN [h4 EXCEPT !.tail[h4.resource[self]] = self]
                ELSE h4
      IN [h5 EXCEPT !.next[nxt] = self]

\* move_in without the repair of the resource's head.
TaskMoveInNoHead(h, self) ==
    IF h.previous[self] = None THEN h
    ELSE
      LET prev == h.previous[self]
          h1 == [h EXCEPT !.next[prev] = h.next[self]]
          h2 == IF h1.next[self] # None
                  THEN [h1 EXCEPT !.previous[h1.next[self]] = prev]
                ELSE IF h1.resource[self] # None
                  THEN [h1 EXCEPT !.tail[h1.resource[self]] = prev]
                ELSE h1
          h3 == [h2 EXCEPT !.next[self] = prev]
          h4 == [h3 EXCEPT !.previous[self] = h3.previous[prev]]
          h5 == IF h4.previous[prev] # None
                  THEN [h4 EXCEPT !.next[h4.previous[prev]] = self]
                ELSE h4
      IN [h5 EXCEPT !.previous[prev] = self]

TaskMoveIn(h, self) ==
    IF h.previous[self] = None THEN h
    ELSE
      LET prev == h.previous[self]
          \* right side
          h1 == [h EXCEPT !.next[prev] = h.next[self]]
          h2 == IF h1.next[self] # None
                  THEN [h1 EXCEPT !.previous[h1.next[self]] = prev]
                ELSE IF h1.resource[self] # None
                  THEN [h1 EXCEPT !.tail[h1.resource[self]] = prev]
                ELSE h1
          h3 == [h2 EXCEPT !.next[self] = prev]
          \* left side
          h4 == [h3 EXCEPT !.previous[self] = h3.previous[prev]]
          h5 == IF h4.previous[prev] # None
                  THEN [h4 EXCEPT !.next[h4.previous[prev]] = self]
                ELSE IF h4.resource[self] # None
                  THEN [h4 EXCEPT !.head[h4.resource[self]] = self]
                ELSE h4
      IN [h5 EXCEPT !.previous[prev] = self]

TaskDrop(h, self) ==
    LET h1 == IF h.previous[self] # None
                THEN [h EXCEPT !.next[h.previous[self]] = h.next[self]]
              ELSE IF h.resource[self] # None
                THEN [h EXCEPT !.head[h.resource[self]] = h.next[self]]
              ELSE h
        h2 == IF h1.next[self] # None
                THEN [h1 EXCEPT !.previous[h1.next[self]] = h1.previous[self]]
              ELSE IF h1.resource[self] # None
                THEN [h1 EXCEPT !.tail[h1.resource[self]] = h1.previous[self]]
              ELSE h1
    IN [h2 EXCEPT !.previous[self] = None, !.next[self] = None,
                  !.resource[self] = None]

\* ---------------------------------------------------------------------
\* Resource: attaching at either end
\* ---------------------------------------------------------------------

AddTailLinks(h, r, task) ==
    LET h1 == [h EXCEPT !.resource[task] = r, !.next[task] = None]
        h2 == IF h1.tail[r] # None
                THEN LET a == [h1 EXCEPT !.previous[task] = h1.tail[r]]
                     IN [a EXCEPT !.next[a.tail[r]] = task]
                ELSE [h1 EXCEPT !.previous[task] = None]
        h3 == [h2 EXCEPT !.tail[r] = task]
    IN IF h3.head[r] = None THEN [h3 EXCEPT !.head[r] = task] ELSE h3

AddHeadLinks(h, r, task) ==
    LET h1 == [h EXCEPT !.resource[task] = r, !.previous[task] = None]
        h2 == IF h1.head[r] # None
                THEN LET a == [h1 EXCEPT !.next[task] = h1.head[r]]
                     IN [a EXCEPT !.previous[a.head[r]] = task]
                ELSE [h1 EXCEPT !.next[task] = None]
        h3 == [h2 EXCEPT !.head[r] = task]
    IN IF h3.tail[r] = None THEN [h3 EXCEPT !.tail[r] = task] ELSE h3

\* ---------------------------------------------------------------------
\* SchedulingTask: the dirty flag and the cached timing
\* ---------------------------------------------------------------------

\* invalidate() recurses along next and never stops on a cycle of next
\* links: more than NTasks hops means a task was met twice.
RECURSIVE InvalidateFrom(_, _, _)
InvalidateFrom(h, self, hops) ==
    LET h1 == [h EXCEPT !.dirty[self] = TRUE]
    IN IF h1.next[self] = None THEN h1
       ELSE IF hops >= NTasks THEN Fail(h1)
       ELSE InvalidateFrom(h1, h1.next[self], hops + 1)

Invalidate(h, self) == IF h.ok THEN InvalidateFrom(h, self, 0) ELSE h

\* calculate() reads prev_task.earliest_stop, whose getter calculates the
\* predecessor first when that one is dirty; self stays dirty until the last
\* statement, so a cycle of dirty tasks along previous recurses for ever.
RECURSIVE CalculateFrom(_, _, _)
CalculateFrom(h, self, depth) ==
    LET prev_task == h.previous[self]
    IN IF prev_task = None
         THEN [h EXCEPT !.earliest_start[self] = 0, !.dirty[self] = FALSE]
       ELSE
         LET h1 == IF ~h.dirty[prev_task] THEN h
                   ELSE IF depth >= NTasks THEN Fail(h)
                   ELSE CalculateFrom(h, prev_task, depth + 1)
             earliest_stop == h1.earliest_start[prev_task] + duration[prev_task]
             es == earliest_stop + min_margin_before[self]
         IN IF ~h1.ok THEN h1
            ELSE [h1 EXCEPT !.earliest_start[self] = es,
                            !.start[self] = Max(es, h1.start[self]),
                            !.dirty[self] = FALSE]

Calculate(h, self) == IF h.ok THEN CalculateFrom(h, self, 0) ELSE h

\* The getters of earliest_start and start: the heap the read leaves; the
\* value read is the field of that heap.
GetEarliestStart(h, self) ==
    IF h.ok /\ h.dirty[self] THEN Calculate(h, self) ELSE h

GetStart(h, self) ==
    IF h.ok /\ h.dirty[self] THEN Calculate(h, self) ELSE h

\* start.setter
SetStart(h, self, value) ==
    LET h1 == GetEarliestStart(h, self)
    IN IF ~h1.ok THEN h1
       ELSE [h1 EXCEPT !.start[self] = Max(h1.earliest_start[self], value)]

SchedMoveOut(h, self) == Invalidate(TaskMoveOut(h, self), self)

SchedMoveIn(h, self) == Invalidate(TaskMoveIn(h, self), self)

SchedDrop(h, self) ==
    LET h1 == Invalidate(h, self)
    IN IF h1.ok THEN TaskDrop(h1, self) ELSE h1

\* Task.insert: task.drop() is dispatched to SchedulingTask.drop
TaskInsert(h, self, task) ==
    LET h0 == SchedDrop(h, task)
        h1 == [h0 EXCEPT !.resource[task] = h0.resource[self]]
        h2 == IF h1.previous[self] # None
                THEN [h1 EXCEPT !.next[h1.previous[self]] = task]
              ELSE IF h1.resource[self] # None
                THEN [h1 EXCEPT !.head[h1.resource[self]] = task]
              ELSE h1
        h3 == [h2 EXCEPT !.next[task] = self]
        h4 == [h3 EXCEPT !.previous[task] = h3.previous[self]]
    IN IF ~h0.ok THEN h0 ELSE [h4 EXCEPT !.previous[self] = task]

SchedInsert(h, self, task) == Invalidate(TaskInsert(h, self, task), task)

\* ---------------------------------------------------------------------
\* The sweeps
\* ---------------------------------------------------------------------

\* schedule_backward's loop body with the successor's margin left out.
BackwardBodyNoMargin(h, t) ==
    LET next_task == h.next[t]
    IN IF next_task # None
         THEN LET g == GetStart(h, next_task)
              IN IF ~g.ok THEN g
                 ELSE SetStart(g, t,
                        Min(target[t], g.start[next_task] - duration[t]))
       ELSE SetStart(h, t, target[t])

\* One iteration of schedule_backward's loop body on t.
BackwardBody(h, t) ==
    LET next_task == h.next[t]
    IN IF next_task # None
         THEN LET g == GetStart(h, next_task)
              IN IF ~g.ok THEN g
                 ELSE SetStart(g, t,
                        Min(target[t],
                            g.start[next_task] - min_margin_before[next_task]
                              - duration[t]))
       ELSE SetStart(h, t, target[t])

\* while t: ...; t = t.previous.  More than NTasks iterations means the
\* walk along previous is cyclic and the loop does not end.
RECURSIVE ScheduleBackwardFrom(_, _, _)
ScheduleBackwardFrom(h, t, iter) ==
    IF t = None \/ ~h.ok THEN h
    ELSE IF iter >= NTasks THEN Fail(h)
    ELSE LET h1 == BackwardBody(h, t)
         IN ScheduleBackwardFrom(h1, h1.previous[t], iter + 1)

ScheduleBackward(h, t) == ScheduleBackwardFrom(h, t, 0)

\* schedule_forward's loop body with the margin left out of the floor.
ForwardBodyNoMargin(h, t) ==
    LET prev == h.previous[t]
        h1 == IF prev # None
                THEN LET g1 == GetStart(h, prev)
                         g2 == GetStart(g1, t)
                     IN IF ~g2.ok THEN g2
                        ELSE SetStart(g2, t,
                               Max(g1.start[prev] + duration[prev],
                                   g2.start[t]))
              ELSE h
        h2 == GetStart(h1, t)
    IN [heap |-> h2,
        late |-> IF h2.ok THEN Max(0, h2.start[t] - target[t]) ELSE 0]

\* schedule_forward's loop body adding start - target without the max(0, .).
ForwardBodySignedLate(h, t) ==
    LET prev == h.previous[t]
        h1 == IF prev # None
                THEN LET g1 == GetStart(h, prev)
                         g2 == GetStart(g1, t)
                     IN IF ~g2.ok THEN g2
                        ELSE SetStart(g2, t,
                               Max(g1.start[prev] + duration[prev]
                                     + min_margin_before[t],
                                   g2.start[t]))
              ELSE h
        h2 == GetStart(h1, t)
    IN [heap |-> h2,
        late |-> IF h2.ok THEN h2.start[t] - target[t] ELSE 0]

\* schedule_forward's loop body assigning the floor alone, without the
\* max with the start the task already has.
ForwardBodyFloorOnly(h, t) ==
    LET prev == h.previous[t]
        h1 == IF prev # None
                THEN LET g1 == GetStart(h, prev)
                     IN IF ~g1.ok THEN g1
                        ELSE SetStart(g1, t,
                               g1.start[prev] + duration[prev]
                                 + min_margin_before[t])
              ELSE h
        h2 == GetStart(h1, t)
    IN [heap |-> h2,
        late |-> IF h2.ok THEN Max(0, h2.start[t] - target[t]) ELSE 0]

\* One iteration of schedule_forward's loop body on t: the heap it leaves
\* and the lateness it adds to score.
ForwardBody(h, t) ==
    LET prev == h.previous[t]
        h1 == IF prev # None
                THEN LET g1 == GetStart(h, prev)
                         g2 == GetStart(g1, t)
                     IN IF ~g2.ok THEN g2
                        ELSE SetStart(g2, t,
                               Max(g1.start[prev] + duration[prev]
                                     + min_margin_before[t],
                                   g2.start[t]))
              ELSE h
        h2 == GetStart(h1, t)
    IN [heap |-> h2,
        late |-> IF h2.ok THEN Max(0, h2.start[t] - target[t]) ELSE 0]

RECURSIVE ScheduleForwardFrom(_, _, _, _)
ScheduleForwardFrom(h, t, sc, iter) ==
    IF t = None \/ ~h.ok THEN [heap |-> h, score |-> sc]
    ELSE IF iter >= NTasks THEN [heap |-> Fail(h), score |-> sc]
    ELSE LET b == ForwardBody(h, t)
         IN ScheduleForwardFrom(b.heap, b.heap.next[t], sc + b.late, iter + 1)

ScheduleForward(h, t) == ScheduleForwardFrom(h, t, 0, 0)

\* schedule() with the two sweeps in the wrong order.
ResourceScheduleForwardFirst(h, r) ==
    LET f == IF h.head[r] # None THEN ScheduleForward(h, h.head[r])
             ELSE [heap |-> h, score |-> 0]
        h1 == IF f.heap.ok /\ f.heap.tail[r] # None
                THEN ScheduleBackward(f.heap, f.heap.tail[r])
              ELSE f.heap
    IN [heap |-> h1, score |-> f.score]

\* SchedulingResource.schedule
ResourceSchedule(h, r) ==
    LET h1 == IF h.tail[r] # None THEN ScheduleBackward(h, h.tail[r]) ELSE h
    IN IF ~h1.ok THEN [heap |-> h1, score |-> 0]
       ELSE IF h1.head[r] # None THEN ScheduleForward(h1, h1.head[r])
       ELSE [heap |-> h1, score |-> 0]

\* ---------------------------------------------------------------------
\* Local search
\* ---------------------------------------------------------------------

\* The repair after an applied exchange without its second assignment: the
\* moved task keeps the start it had behind its former predecessor.
RepairSuccessorOnly(h, task) ==
    LET next_task == h.next[task]
    IN IF next_task = None THEN h
       ELSE LET a == GetEarliestStart(h, next_task)
                b == GetStart(a, task)
            IN IF ~b.ok THEN b
               ELSE SetStart(b, next_task,
                      Max(a.earliest_start[next_task]
                            - min_margin_before[next_task],
                          Min(target[task], b.start[task])))

\* The repair of the two starts after an applied exchange.
RepairAfterMoveIn(h, task) ==
    LET next_task == h.next[task]
        h1 == IF next_task # None
                THEN LET a == GetEarliestStart(h, next_task)
                         b == GetStart(a, task)
                     IN IF ~b.ok THEN b
                        ELSE SetStart(b, next_task,
                               Max(a.earliest_start[next_task]
                                     - min_margin_before[next_task],
                                   Min(target[task], b.start[task])))
              ELSE h
    IN IF ~h1.ok THEN h1
       ELSE IF next_task = None THEN Fail(h1)   \* next_task.start on None
       ELSE LET c == GetEarliestStart(h1, task)
                d == GetStart(c, next_task)
            IN IF ~d.ok THEN d
               ELSE SetStart(d, task,
                      Max(c.earliest_start[task],
                          Min(d.start[next_task] - min_margin_before[next_task]
                                - duration[task],
                              target[task])))

\* improvement_move_in: the heap it leaves, the gain it returns and whether
\* it applied the exchange.
ImprovementMoveIn(h, task, execute) ==
    IF h.previous[task] = None
      THEN [heap |-> h, improvement |-> 0, applied |-> FALSE]
    ELSE
      LET t1 == h.previous[task]
          t2 == task
          a == GetStart(h, t1)
          b == GetStart(a, t2)
          c == GetEarliestStart(b, t1)
          t1_cs == Max(0, a.start[t1] - target[t1])
          t2_cs == Max(0, b.start[t2] - target[t2])
          t1_as == Max(0, c.earliest_start[t1] + min_margin_before[t2]
                            + duration[t2] - target[t1])
          t2_as == Max(0, c.earliest_start[t1] - min_margin_before[t1]
                            + min_margin_before[t2] - target[t2])
          gain == t1_as + t2_as - t1_cs - t2_cs
      IN IF ~c.ok THEN [heap |-> c, improvement |-> 0, applied |-> FALSE]
         ELSE IF execute /\ gain < 0
           THEN [heap |-> RepairAfterMoveIn(SchedMoveIn(c, task), task),
                 improvement |-> gain, applied |-> TRUE]
         ELSE [heap |-> c, improvement |-> gain, applied |-> FALSE]

\* ---------------------------------------------------------------------
\* Observers used by the actions and the properties
\* ---------------------------------------------------------------------

\* Resource.iter_tasks, cut after NTasks + 1 tasks (a longer walk is cyclic).
RECURSIVE WalkNext(_, _, _)
WalkNext(h, t, n) ==
    IF t = None \/ n = 0 THEN <<>>
    ELSE <<t>> \o WalkNext(h, h.next[t], n - 1)

RECURSIVE WalkPrevious(_, _, _)
WalkPrevious(h, t, n) ==
    IF t = None \/ n = 0 THEN <<>>
    ELSE <<t>> \o WalkPrevious(h, h.previous[t], n - 1)

IterTasks(h, r) == WalkNext(h, h.head[r], NTasks + 1)

\* The order sq without the task y, and with y put right before x.
Without(sq, y) == SelectSeq(sq, LAMBDA e : e # y)

WithBefore(sq, x, y) ==
    IF \E i \in 1..Len(sq) : sq[i] = x
      THEN LET i == CHOOSE j \in 1..Len(sq) : sq[j] = x
           IN SubSeq(sq, 1, i - 1) \o <<y>> \o SubSeq(sq, i, Len(sq))
    ELSE sq

Reverse(sq) == [i \in 1..Len(sq) |-> sq[Len(sq) + 1 - i]]

Range(sq) == {sq[i] : i \in 1..Len(sq)}

\* What a client reads from t.start and t.earliest_start in heap h.
ReadStart(h, t) == GetStart(h, t).start[t]
ReadEarliestStart(h, t) == GetEarliestStart(h, t).earliest_start[t]

RECURSIVE SumOver(_, _)
SumOver(f, S) ==
    IF S = {} THEN 0
    ELSE LET x == CHOOSE y \in S : TRUE IN f[x] + SumOver(f, S \ {x})

\* Total lateness of resource r as a client reads it.
Lateness(h, r) ==
    LET ts == Range(IterTasks(h, r))
    IN SumOver([t \in ts |-> Max(0, ReadStart(h, t) - target[t])], ts)

\* ---------------------------------------------------------------------
\* The state machine
\* ---------------------------------------------------------------------

NoHist ==
    [prev |-> "init", prev_res |-> None, score0 |-> 0,
     start0 |-> [t \in Tasks |-> 0], evals |-> 0, swaps |-> 0, gains |-> 0,
     n |-> 0, order0 |-> <<>>]

\* SchedulingTask.__init__ for every task, Resource.__init__ for every
\* resource: all tasks detached and dirty, start = target.
Constructed ==
    /\ next = [t \in Tasks |-> None]
    /\ previous = [t \in Tasks |-> None]
    /\ resource = [t \in Tasks |-> None]
    /\ head = [r \in Resources |-> None]
    /\ tail = [r \in Resources |-> None]
    /\ dirty = [t \in Tasks |-> TRUE]
    /\ earliest_start = [t \in Tasks |-> 0]
    /\ start = target
    /\ pc = "idle"
    /\ cursor = None
    /\ improvement = 0
    /\ self_res = None
    /\ score = 0
    /\ improved = 0
    /\ last = "init"
    /\ ops = 0
    /\ hist = NoHist

\* A call returns or does not (a recursion or a loop round a cycle of
\* links); either way the objects are as its statements left them.
Commit(h, kind) ==
    /\ next' = h.next
    /\ previous' = h.previous
    /\ resource' = h.resource
    /\ head' = h.head
    /\ tail' = h.tail
    /\ dirty' = h.dirty
    /\ earliest_start' = h.earliest_start
    /\ start' = h.start
    /\ pc' = IF h.ok THEN "idle" ELSE "crashed"
    /\ last' = IF h.ok THEN kind ELSE last
    /\ UNCHANGED taskvars

\* What the properties need of the call before this one: its kind and its
\* resource and, when it was schedule(), its score and the starts it left;
\* and of the call being made on r: the order of r when it is made.
Remember(r) ==
    [NoHist EXCEPT
       !.order0 = IterTasks(Heap, r),
       !.prev = last,
       !.prev_res = self_res,
       !.score0 = IF last = "schedule" THEN score ELSE 0,
       !.start0 = IF last = "schedule"
                    THEN [t \in Tasks |-> ReadStart(Heap, t)]
                    ELSE [t \in Tasks |-> 0]]

\* A call of one of the list or task methods.
Plain(h) ==
    /\ pc = "idle"
    /\ Commit(h, "call")
    /\ hist' = NoHist
    /\ self_res' = None
    /\ score' = 0
    /\ improved' = 0
    /\ UNCHANGED <<cursor, improvement>>

AddTail(r, task) == Plain(AddTailLinks(Heap, r, task))

AddHead(r, task) == Plain(AddHeadLinks(Heap, r, task))

Insert(self, task) == Plain(SchedInsert(Heap, self, task))

Drop(self) == Plain(SchedDrop(Heap, self))

MoveIn(self) == Plain(SchedMoveIn(Heap, self))

MoveOut(self) == Plain(SchedMoveOut(Heap, self))

ReadStartOf(self) == Plain(GetStart(Heap, self))

ReadEarliestStartOf(self) == Plain(GetEarliestStart(Heap, self))

AssignStart(self, value) == Plain(SetStart(Heap, self, value))

Schedule(r) ==
    LET res == ResourceSchedule(Heap, r)
    IN /\ pc = "idle"
       /\ Commit(res.heap, "schedule")
       /\ hist' = Remember(r)
       /\ self_res' = IF res.heap.ok THEN r ELSE self_res
       /\ score' = IF res.heap.ok THEN res.score ELSE score
       /\ improved' = 0
       /\ UNCHANGED <<cursor, improvement, ops>>

\* schedule_backward(r.tail) called on its own
Backward(r) ==
    /\ pc = "idle"
    /\ Commit(ScheduleBackward(Heap, tail[r]), "backward")
    /\ hist' = Remember(r)
    /\ self_res' = r
    /\ score' = 0
    /\ improved' = 0
    /\ UNCHANGED <<cursor, improvement, ops>>

\* schedule_forward(r.head) called on its own
Forward(r) ==
    LET res == ScheduleForward(Heap, head[r])
    IN /\ pc = "idle"
       /\ Commit(res.heap, "forward")
       /\ hist' = Remember(r)
       /\ self_res' = r
       /\ score' = IF res.heap.ok THEN res.score ELSE score
       /\ improved' = 0
       /\ UNCHANGED <<cursor, improvement, ops>>

\* improve(): entry up to the loop test
ImproveCall(r) ==
    /\ pc = "idle"
    /\ pc' = "improve"
    /\ self_res' = r
    /\ cursor' = tail[r]
    /\ improvement' = 0
    /\ hist' = [Remember(r) EXCEPT !.n = Len(IterTasks(Heap, r))]
    /\ last' = "improve_call"
    /\ score' = IF last = "schedule" THEN score ELSE 0
    /\ improved' = 0
    /\ UNCHANGED <<heapvars, taskvars, ops>>

\* improve()'s loop adding every gain to the total, applied or not.
ImproveStepAddsEveryGain ==
    /\ pc = "improve"
    /\ cursor # None
    /\ LET m == ImprovementMoveIn(Heap, cursor, TRUE)
           step_improvement == m.improvement
       IN /\ m.heap.ok
          /\ next' = m.heap.next
          /\ previous' = m.heap.previous
          /\ resource' = m.heap.resource
          /\ head' = m.heap.head
          /\ tail' = m.heap.tail
          /\ dirty' = m.heap.dirty
          /\ earliest_start' = m.heap.earliest_start
          /\ start' = m.heap.start
          /\ pc' = "improve"
          /\ improvement' = improvement + step_improvement
          /\ cursor' = IF step_improvement < 0 THEN cursor
                       ELSE m.heap.previous[cursor]
          /\ hist' = [hist EXCEPT
                        !.evals = @ + 1,
                        !.swaps = IF m.applied THEN @ + 1 ELSE @,
                        !.gains = IF m.applied THEN @ + m.improvement ELSE @]
    /\ UNCHANGED <<taskvars, self_res, score, improved, last, ops>>

\* one iteration of improve()'s loop
ImproveStep ==
    /\ pc = "improve"
    /\ cursor # None
    /\ LET m == ImprovementMoveIn(Heap, cursor, TRUE)
           step_improvement == m.improvement
       IN /\ IF m.heap.ok
               THEN /\ next' = m.heap.next
                    /\ previous' = m.heap.previous
                    /\ resource' = m.heap.resource
                    /\ head' = m.heap.head
                    /\ tail' = m.heap.tail
                    /\ dirty' = m.heap.dirty
                    /\ earliest_start' = m.heap.earliest_start
                    /\ start' = m.heap.start
                    /\ pc' = "improve"
                    /\ IF step_improvement < 0
                         THEN /\ improvement' = improvement + step_improvement
                              /\ cursor' = cursor
                         ELSE /\ improvement' = improvement
                              /\ cursor' = m.heap.previous[cursor]
                    /\ hist' = [hist EXCEPT
                                  !.evals = @ + 1,
                                  !.swaps = IF m.applied THEN @ + 1 ELSE @,
                                  !.gains = IF m.applied
                                              THEN @ + m.improvement ELSE @]
               ELSE /\ pc' = "crashed"
                    /\ UNCHANGED <<heapvars, improvement, cursor, hist>>
    /\ UNCHANGED <<taskvars, self_res, score, improved, last, ops>>

\* improve(): the loop test fails, return improvement
ImproveReturn ==
    /\ pc = "improve"
    /\ cursor = None
    /\ pc' = "idle"
    /\ improved' = improvement
    /\ improvement' = 0
    /\ last' = "improve"
    /\ UNCHANGED <<heapvars, taskvars, cursor, self_res, score, hist, ops>>

\* ---------------------------------------------------------------------
\* Specifications
\* ---------------------------------------------------------------------

Detached(task) ==
    resource[task] = None /\ next[task] = None /\ previous[task] = None

\* The tasks are attached in the order of their numbers: SchedInit gives
\* every task every combination of parameters, so every order of every
\* choice of parameters is still built.
Fresh(task) ==
    /\ Detached(task)
    /\ \A u \in Tasks : u < task => resource[u] # None

\* Spec: a client that calls the list and task methods with any arguments,
\* at most MaxOps calls.
Init ==
    /\ duration \in [Tasks -> {MaxDuration}]
    /\ target \in [Tasks -> {0 - MaxEarlyTarget, MaxTarget}]
    /\ min_margin_before \in [Tasks -> {MaxMargin}]
    /\ Constructed

Next ==
    /\ ops < MaxOps
    /\ ops' = ops + 1
    /\ \/ \E r \in Resources, t \in Tasks : AddTail(r, t)
       \/ \E r \in Resources, t \in Tasks : AddHead(r, t)
       \/ \E x \in Tasks, y \in Tasks : Insert(x, y)
       \/ \E t \in Tasks : Drop(t)
       \/ \E t \in Tasks : MoveIn(t)
       \/ \E t \in Tasks : MoveOut(t)
       \/ \E t \in Tasks : ReadStartOf(t)
       \/ \E t \in Tasks : ReadEarliestStartOf(t)
       \/ \E t \in Tasks, v \in EarlyTargets \cup Targets : AssignStart(t, v)

Spec == Init /\ [][Next]_vars

\* SchedSpec: a client that builds the order of one resource out of
\* detached tasks, at either end, and runs schedule() and improve() on it.
SchedResource == NResources

SchedInit ==
    /\ duration \in [Tasks -> Durations]
    /\ target \in [Tasks -> Targets]
    /\ min_margin_before \in [Tasks -> Margins]
    /\ Constructed

SchedNext ==
    \/ \E t \in Tasks :
         Fresh(t) /\ AddTail(SchedResource, t) /\ UNCHANGED ops
    \/ \E t \in Tasks :
         Fresh(t) /\ AddHead(SchedResource, t) /\ UNCHANGED ops
    \/ Schedule(SchedResource)
    \/ ImproveCall(SchedResource)
    \/ ImproveStep
    \/ ImproveReturn

SchedSpec == SchedInit /\ [][SchedNext]_vars

\* SweepSpec: a client that builds the order of one resource, assigns a
\* start to its tail and calls the two sweeps on their own, in any order.
SweepNext ==
    \/ \E t \in Tasks :
         Fresh(t) /\ AddTail(SchedResource, t) /\ UNCHANGED ops
    \/ \E t \in Tasks :
         Fresh(t) /\ AddHead(SchedResource, t) /\ UNCHANGED ops
    \/ \E v \in Targets :
         /\ tail[SchedResource] # None
         /\ AssignStart(tail[SchedResource], v)
         /\ UNCHANGED ops
    \/ Backward(SchedResource)
    \/ Forward(SchedResource)

SweepSpec == SchedInit /\ [][SweepNext]_vars

\* MultiSpec: a client that spreads the tasks over all the resources and
\* runs schedule() and improve() on any of them.
MultiNext ==
    \/ \E r \in Resources, t \in Tasks :
         Fresh(t) /\ AddTail(r, t) /\ UNCHANGED ops
    \/ \E r \in Resources, t \in Tasks :
         Fresh(t) /\ AddHead(r, t) /\ UNCHANGED ops
    \/ \E r \in Resources : Schedule(r)
    \/ \E r \in Resources : ImproveCall(r)
    \/ ImproveStep
    \/ ImproveReturn

MultiSpec == Init /\ [][MultiNext]_vars

\* AnyArgsSpec: the client of SchedSpec with tasks constructed from any
\* integer arguments, negative durations and margins included.
AnyArgsInit ==
    /\ duration \in [Tasks -> InvalidArgs \cup {MaxDuration}]
    /\ target \in [Tasks -> {MaxTarget}]
    /\ min_margin_before \in [Tasks -> InvalidArgs \cup {MaxMargin}]
    /\ Constructed

AnyArgsSpec == AnyArgsInit /\ [][SchedNext]_vars

\* TwoTaskSpec: the same client with task 1 built as A = (duration 5,
\* target 0, margin 0) and task 2 as B = (duration 1, target 0, margin 0);
\* the last task takes every combination of parameters.
TwoTaskInit ==
    /\ duration \in {d \in [Tasks -> Durations \cup {1, 5}] :
                       /\ d[1] = 5 /\ d[2] = 1
                       /\ \A t \in Tasks : t > 2 => d[t] \in Durations}
    /\ target \in {g \in [Tasks -> Targets] : g[1] = 0 /\ g[2] = 0}
    /\ min_margin_before \in {m \in [Tasks -> Margins] : m[1] = 0 /\ m[2] = 0}
    /\ Constructed

TwoTaskSpec == TwoTaskInit /\ [][SchedNext]_vars

\* ---------------------------------------------------------------------
\* Properties
\* ---------------------------------------------------------------------

\* The link invariant of one resource.
LinkOK(h, r) ==
    LET fwd == IterTasks(h, r)
        bwd == WalkPrevious(h, h.tail[r], NTasks + 1)
    IN /\ Len(fwd) <= NTasks
       /\ Len(bwd) <= NTasks
       /\ fwd = Reverse(bwd)
       /\ (h.head[r] # None => h.previous[h.head[r]] = None)
       /\ (h.tail[r] # None => h.next[h.tail[r]] = None)
       /\ \A i \in 1..Len(fwd) : h.resource[fwd[i]] = r

\* C1: after any sequence of add_head, add_tail, insert, drop, move_in and
\* move_out on any tasks and resources, every resource's walk by next is the
\* reverse of its walk by previous, both are finite, head.previous and
\* tail.next are None and every task on the walk has that resource.
C1_LinkInvariant ==
    pc = "idle" => \A r \in Resources : LinkOK(Heap, r)

\* The links moved in this step.
LinksChanged ==
    <<next, previous, resource, head, tail>>' #
        <<next, previous, resource, head, tail>>

\* In the order r has after the step, the positions whose task has a new
\* predecessor or is new to r.
ChangedPositions(r) ==
    LET w == IterTasks(Heap', r)
    IN {i \in 1..Len(w) : previous'[w[i]] # previous[w[i]]
                            \/ resource[w[i]] # r}

\* C2: right after one structural mutation of a resource whose tasks were all
\* clean, the task at the lowest position whose predecessor changed and every
\* task after it is dirty.
C2_InvalidationComplete ==
    [][\A r \in Resources :
         (/\ pc = "idle" /\ pc' = "idle"
          /\ LinksChanged
          /\ LinkOK(Heap, r) /\ LinkOK(Heap', r)
          /\ \A t \in Range(IterTasks(Heap, r)) : ~dirty[t])
         => LET w == IterTasks(Heap', r)
            IN \A i \in ChangedPositions(r) :
                 \A j \in i..Len(w) : dirty'[w[j]]]_vars

\* earliest_start from scratch for position i of the order w.
RECURSIVE ScratchEarliestStart(_, _)
ScratchEarliestStart(w, i) ==
    IF i = 1 THEN 0
    ELSE ScratchEarliestStart(w, i - 1) + duration[w[i - 1]]
           + min_margin_before[w[i]]

\* C3: whatever structural calls and reads came before, reading
\* earliest_start of a task of a resource gives 0 for the head and otherwise
\* the predecessor's earliest_start + duration + the task's margin.
C3_EarliestStartCoherent ==
    pc = "idle" =>
      \A r \in Resources :
        LinkOK(Heap, r) =>
          LET w == IterTasks(Heap, r)
          IN \A i \in 1..Len(w) :
               ReadEarliestStart(Heap, w[i]) = ScratchEarliestStart(w, i)

\* C4: every read of start gives at least what earliest_start gives then,
\* for any target and any position, before any sweep, after calculate() and
\* after any assignment to start.
C4_StartAtLeastEarliestStart ==
    pc = "idle" =>
      \A r \in Resources :
        LinkOK(Heap, r) =>
          \A t \in Range(IterTasks(Heap, r)) :
            ReadStart(Heap, t) >= ReadEarliestStart(Heap, t)

\* ---- properties of schedule() and improve() ----

\* schedule() has just returned.
Scheduled == pc = "idle" /\ last = "schedule"

\* improve() has just returned and the call before it was schedule() on the
\* same resource, whose score is still in score.
ImprovedAfterSchedule ==
    /\ pc = "idle"
    /\ last = "improve"
    /\ hist.prev = "schedule"
    /\ hist.prev_res = self_res

\* No task of r starts before its predecessor's start + duration + its own
\* margin.
Occupancy(h, r) ==
    LET w == IterTasks(h, r)
    IN \A i \in 2..Len(w) :
         ReadStart(h, w[i]) >=
           ReadStart(h, w[i - 1]) + duration[w[i - 1]] + min_margin_before[w[i]]

\* C5: when schedule() returns, every task with a predecessor starts no
\* earlier than the predecessor's start + the predecessor's duration + its
\* own margin.
C5_OccupancyAfterSchedule ==
    Scheduled => Occupancy(Heap, self_res)

\* C5's case: a full order was scheduled after a task was put in front of
\* tasks whose cached earliest_start was already computed, and a task is late.
C5_Witness ==
    /\ Scheduled
    /\ Len(IterTasks(Heap, self_res)) = NTasks
    /\ \E i \in 1..NTasks :
         earliest_start[IterTasks(Heap, self_res)[i]] #
           ScratchEarliestStart(IterTasks(Heap, self_res), i)
    /\ \E t \in Tasks : start[t] > target[t]

\* C6: the score schedule() returns is the sum over the resource's tasks of
\* max(0, start - target), it is 0 exactly when no task starts after its
\* target, and it is 0 for an empty resource.
C6_ScoreIsLateness ==
    Scheduled =>
      LET ts == Range(IterTasks(Heap, self_res))
      IN /\ score = Lateness(Heap, self_res)
         /\ (score = 0 <=> \A t \in ts : ReadStart(Heap, t) <= target[t])
         /\ (ts = {} => score = 0)

\* C6's case: a full order, one task late and one with slack.
C6_Witness ==
    /\ Scheduled
    /\ Len(IterTasks(Heap, self_res)) = NTasks
    /\ score > 0
    /\ \E t \in Tasks : start[t] < target[t]

\* C7: after schedule() returned S, the total lateness after a following
\* improve() is at most S.
C7_ImproveNeverWorse ==
    ImprovedAfterSchedule => Lateness(Heap, self_res) <= score

\* C8: improve() called right after schedule() returned S returns a value
\* <= 0 equal to (total lateness after improve()) - S.
C8_ImproveReportsExactly ==
    ImprovedAfterSchedule =>
      /\ improved <= 0
      /\ improved = Lateness(Heap, self_res) - score

\* C9: improve() on n tasks returns after at most n * n evaluations of
\* improvement_move_in, and what it returns is the sum of the gains of the
\* evaluations that applied an exchange.  That it returns is stated by a
\* variant: the loop never fails, and the evaluations made plus the tasks
\* from the cursor back to the head are always n, so every evaluation
\* leaves one evaluation less to make.
C9_ImproveTerminates ==
    /\ pc # "crashed"
    /\ pc = "improve" =>
         /\ hist.evals + Len(WalkPrevious(Heap, cursor, NTasks + 1)) = hist.n
         /\ hist.evals <= hist.n * hist.n
         /\ improvement = hist.gains
    /\ (pc = "idle" /\ last = "improve") =>
         /\ hist.evals <= hist.n * hist.n
         /\ improved = hist.gains

\* C9's case: improve() returned after applying at least two exchanges on a
\* full order.
C9_Witness ==
    /\ pc = "idle"
    /\ last = "improve"
    /\ hist.n = NTasks
    /\ hist.swaps >= 2
    /\ improved < 0

\* C10: a second schedule() right after a first one, with nothing in
\* between, returns the same score and leaves every start as it was.
C10_ScheduleIdempotent ==
    (Scheduled /\ hist.prev = "schedule" /\ hist.prev_res = self_res) =>
      /\ score = hist.score0
      /\ \A t \in Tasks : ReadStart(Heap, t) = hist.start0[t]

\* C10's case: schedule() twice in a row on a full order with a late task.
C10_Witness ==
    /\ Scheduled
    /\ hist.prev = "schedule"
    /\ hist.prev_res = self_res
    /\ Len(IterTasks(Heap, self_res)) = NTasks
    /\ score > 0

\* C11: when improve() returns after schedule(), no adjacent exchange is
\* still profitable: improvement_move_in(t, execute=False) is >= 0 for every
\* task t of the resource.
C11_LocalOptimumAfterImprove ==
    ImprovedAfterSchedule =>
      \A t \in Range(IterTasks(Heap, self_res)) :
        ImprovementMoveIn(Heap, t, FALSE).improvement >= 0

\* C19: when improve() returns after schedule() on tasks with durations and
\* margins >= 0, every task with a predecessor in the new order still starts
\* no earlier than the predecessor's start + duration + its own margin.
C19_OccupancyAfterImprove ==
    (/\ ImprovedAfterSchedule
     /\ \A t \in Tasks : duration[t] >= 0 /\ min_margin_before[t] >= 0)
      => Occupancy(Heap, self_res)

\* improve() has just returned, called right after schedule() on the order
\* A, B of the two-task scenario.
TwoTaskImproved ==
    /\ ImprovedAfterSchedule
    /\ duration[1] = 5 /\ duration[2] = 1
    /\ target[1] = 0 /\ target[2] = 0
    /\ min_margin_before[1] = 0 /\ min_margin_before[2] = 0
    /\ hist.order0 = <<1, 2>>

\* C12 as stated: with A (duration 5, target 0) then B (duration 1,
\* target 0) attached in that order with zero margins, schedule() followed
\* by improve() leaves the order B, A with B.start = 0 and A.start = 1, and
\* improve() returns -5.
C12_TwoTaskScenario ==
    TwoTaskImproved =>
      /\ IterTasks(Heap, self_res) = <<2, 1>>
      /\ ReadStart(Heap, 2) = 0
      /\ ReadStart(Heap, 1) = 1
      /\ improved = 0 - 5

\* C12 amended: the same scenario leaves the order B, A with B.start = 0 and
\* A.start = 1, and improve() returns -4, the lateness by start after (1)
\* minus the score schedule() returned (5).
C12_TwoTaskScenarioAmended ==
    TwoTaskImproved =>
      /\ IterTasks(Heap, self_res) = <<2, 1>>
      /\ ReadStart(Heap, 2) = 0
      /\ ReadStart(Heap, 1) = 1
      /\ score = 5
      /\ improved = 0 - 4

\* C12's case: the scenario ran and improve() applied its one exchange.
C12_Witness ==
    /\ TwoTaskImproved
    /\ hist.swaps = 1
    /\ hist.score0 = 5

\* A sweep called on its own has just returned.
SweptBackward == pc = "idle" /\ last = "backward"

\* C13 as stated: after schedule_backward(tail) the tail reads
\* start = target, every other task t with successor s reads
\* start = min(t.target, s.start - s.min_margin_before - t.duration), and no
\* task's start exceeds its own target.
C13_BackwardPropagation ==
    SweptBackward =>
      LET w == IterTasks(Heap, self_res)
      IN \A i \in 1..Len(w) :
           /\ ReadStart(Heap, w[i]) =
                (IF i = Len(w) THEN target[w[i]]
                 ELSE Min(target[w[i]],
                          ReadStart(Heap, w[i + 1])
                            - min_margin_before[w[i + 1]] - duration[w[i]]))
           /\ ReadStart(Heap, w[i]) <= target[w[i]]

\* C13 amended: after schedule_backward(tail) the tail reads
\* start = max(earliest_start, target), every other task t with successor s
\* reads start = max(t.earliest_start,
\*                   min(t.target, s.start - s.min_margin_before - t.duration)),
\* and no task's start exceeds the larger of its target and its
\* earliest_start.
C13_BackwardPropagationAmended ==
    SweptBackward =>
      LET w == IterTasks(Heap, self_res)
      IN \A i \in 1..Len(w) :
           /\ ReadStart(Heap, w[i]) =
                Max(ReadEarliestStart(Heap, w[i]),
                    IF i = Len(w) THEN target[w[i]]
                    ELSE Min(target[w[i]],
                             ReadStart(Heap, w[i + 1])
                               - min_margin_before[w[i + 1]]
                               - duration[w[i]]))
           /\ ReadStart(Heap, w[i]) <=
                Max(ReadEarliestStart(Heap, w[i]), target[w[i]])

\* C13's case: the backward pass ran over a full order in which one task is
\* held below its target by its successor and another is raised above its
\* target by its earliest_start.
C13_Witness ==
    /\ SweptBackward
    /\ Len(IterTasks(Heap, self_res)) = NTasks
    /\ \E t \in Tasks : start[t] < target[t]
    /\ \E t \in Tasks : start[t] > target[t]

\* C18: every task of the resource reads, after schedule_forward(head)
\* returns, a start >= the start it had right before the call; and
\* calculate() on any task, in any state, leaves no stored start lower than
\* it was.
C18_ForwardOnlyRaises ==
    [][/\ (pc' = "idle" /\ last' = "forward") =>
            \A t \in Range(IterTasks(Heap, self_res')) :
              /\ ReadStart(Heap', t) >= ReadStart(Heap, t)
              /\ ReadStart(Heap', t) >= start[t]
       /\ pc = "idle" =>
            \A t \in Tasks :
              Calculate(Heap, t).ok =>
                \A u \in Tasks : Calculate(Heap, t).start[u] >= start[u]]_vars

\* C18's case: the forward pass ran over a full order right after starts
\* were assigned, and raised the start of a task.
C18_Witness ==
    /\ pc = "idle"
    /\ last = "forward"
    /\ hist.prev = "call"
    /\ Len(IterTasks(Heap, self_res)) = NTasks
    /\ \E i \in 2..NTasks :
         LET w == IterTasks(Heap, self_res)
         IN /\ start[w[i]] > target[w[i]]
            /\ start[w[i]] > earliest_start[w[i]]

\* ---- properties of the list operations taken one call at a time ----

Links == <<next, previous, resource, head, tail>>

\* What X.insert(Y) has to leave, for distinct X and Y, in terms of the
\* state before the call.
InsertPost(x, y) ==
    LET r == resource[x]
        q == resource[y]
        before == IF previous[x] = y THEN previous[y] ELSE previous[x]
    IN /\ pc' = "idle"
       /\ next'[y] = x
       /\ previous'[x] = y
       /\ previous'[y] = before
       /\ resource'[x] = r
       /\ resource'[y] = r
       /\ (r # None /\ before = None) => head'[r] = y
       /\ r # None =>
            /\ LinkOK(Heap', r)
            /\ IterTasks(Heap', r) =
                 WithBefore(Without(IterTasks(Heap, r), y), x, y)
       /\ (q # None /\ q # r) =>
            /\ LinkOK(Heap', q)
            /\ IterTasks(Heap', q) = Without(IterTasks(Heap, q), y)

\* C14: for distinct tasks X and Y, wherever Y is, after X.insert(Y): Y.next
\* is X, X.previous is Y, Y.previous is the task that preceded X just before
\* the splice (None, and Y the new head, if X was the head), Y.resource is
\* X.resource, and the sequence Y left keeps its other members in their
\* order with correct head and tail.
C14_InsertPostcondition ==
    [][\A x \in Tasks : \A y \in Tasks :
         (x # y /\ Insert(x, y)) => InsertPost(x, y)]_vars

\* C15: X.insert(X) ends in an error and leaves X's next, previous and
\* resource and every resource's head, tail and order unchanged; no
\* self-loop X.next = X is created.
C15_SelfInsertRejected ==
    [][\A x \in Tasks :
         Insert(x, x) =>
           /\ pc' = "crashed"
           /\ Links' = Links
           /\ next'[x] # x]_vars

\* C17: move_out on a task with no successor, move_in on a task with no
\* predecessor and drop on a task in no resource raise no error and leave
\* every next, previous, resource, head and tail unchanged.
C17_BoundaryNoOps ==
    [][\A t \in Tasks :
         (\/ next[t] = None /\ MoveOut(t)
          \/ previous[t] = None /\ MoveIn(t)
          \/ resource[t] = None /\ Drop(t))
           => (pc' = "idle" /\ Links' = Links)]_vars

\* C16: constructing a SchedulingTask with duration < 0 or
\* min_margin_before < 0 ends in a validation error and produces no task, so
\* no task that exists, and no member of a resource, has a negative duration
\* or a negative margin.
C16_InputValidation ==
    /\ \A t \in Tasks : duration[t] >= 0 /\ min_margin_before[t] >= 0
    /\ \A r \in Resources : \A t \in Range(IterTasks(Heap, r)) :
         duration[t] >= 0 /\ min_margin_before[t] >= 0

\* The order b holds exactly the tasks of the order a, each once.
Permutes(b, a) ==
    /\ Len(b) = Len(a)
    /\ Range(b) = Range(a)
    /\ Cardinality(Range(b)) = Len(b)

\* C20: schedule() leaves the order of every resource as it was; every
\* iteration of improve() and improve() as a whole only permute the order of
\* its resource (same tasks, none duplicated or lost) and leave every other
\* resource's order as it was; no duration, target or margin changes.
C20_MembershipPreserved ==
    [][/\ (pc' = "idle" /\ last' = "schedule") =>
            \A r \in Resources : IterTasks(Heap', r) = IterTasks(Heap, r)
       /\ pc = "improve" =>
            /\ Permutes(IterTasks(Heap', self_res), IterTasks(Heap, self_res))
            /\ \A r \in Resources \ {self_res} :
                 IterTasks(Heap', r) = IterTasks(Heap, r)
       /\ (pc' = "idle" /\ last' = "improve") =>
            Permutes(IterTasks(Heap', self_res'), hist'.order0)
       /\ duration' = duration
       /\ target' = target
       /\ min_margin_before' = min_margin_before]_vars

\* C20's case: improve() returned after exchanging tasks at the head of a
\* resource while the other resource holds a task.
C20_Witness ==
    /\ pc = "idle"
    /\ last = "improve"
    /\ hist.swaps >= 1
    /\ Len(hist.order0) >= 2
    /\ head[self_res] # hist.order0[1]
    /\ \E r \in Resources \ {self_res} : head[r] # None

====
